---- MODULE Spec2Model ----
(***************************************************************************)
(* Model of the edge AI service's model lifecycle manager                  *)
(* (ai_service/model_loader.py, class ModelLoader), of the inference       *)
(* engine's read path and statistics (ai_service/inference.py,             *)
(* InferenceEngine), of its preprocessor and post-processor                *)
(* (FramePreprocessor.preprocess, PostProcessor.process_output and         *)
(* _simple_nms), of the detection filter (ai_service/detection.py,         *)
(* DetectionLogic) and of the handlers of the inference API                *)
(* (ai_service/api.py).                                                    *)
(*                                                                         *)
(* Threads: an administrative caller (load_model / reload_model /          *)
(* start / stop monitoring), the callers of the inference engine, the      *)
(* hot-reload watcher thread, and the environment that rewrites the files  *)
(* of the model directory.                                                 *)
(***************************************************************************)
EXTENDS Integers, Sequences, FiniteSets, TLC

(***************************************************************************)
(* Bounds of the model.                                                    *)
(***************************************************************************)
MaxLoads == 2
MaxFileOps == 1
MaxInfers == 1
MaxResets == 1
MaxDetBoxes == 2
MaxNmsBoxes == 4
MaxRows == 2
MaxRequests == 2
MaxBatch == 2

(***************************************************************************)
(* Threads.                                                                *)
(***************************************************************************)
Admins == {"a"}
Inferers == {"i"}
Watchers == {"w"}
\* A second administrative caller and a second watcher thread, which run in
\* the specifications of concurrent start, stop and reload calls.
Operators == Admins \cup {"b"}
AllWatchers == Watchers \cup {"x"}
LoaderThreads == Operators \cup AllWatchers
\* The threads that call the inference engine: Inferers, and a second
\* caller that runs in the specifications of the statistics.
Callers == Inferers \cup {"j"}
Threads == Operators \cup Callers \cup AllWatchers

(***************************************************************************)
(* The model directory.  A path is <<model name, version part, extension>>;*)
(* the bare file {name}.{ext} has the empty version part.                  *)
(***************************************************************************)
NoPath == <<>>
ModelName == "m"
BareXml == <<ModelName, "", "xml">>
BareBin == <<ModelName, "", "bin">>
VerXml == <<ModelName, "v1", "xml">>
VerBin == <<ModelName, "v1", "bin">>
OnnxFile == <<ModelName, "v2", "onnx">>
XmlPaths == {BareXml, VerXml}
BinPaths == {BareBin, VerBin}
DiskPaths == XmlPaths \cup BinPaths

\* File contents: 0 is "no such file".  Contents 1 and 2 of a primary file
\* are two well-formed model definitions, CorruptXml is a file the engine
\* cannot read, MultiOutXml compiles but has several outputs, so that
\* compiled_model.output() raises.
Absent == 0
CorruptXml == 3
MultiOutXml == 4
DefaultInterval == 5
XmlContents == {Absent, 1, 2, CorruptXml, MultiOutXml}
BinContents == {Absent, 1}

\* Arguments a caller passes to load_model.
Formats == {"openvino", "onnx", "tflite"}
Versions == {"", "v1", "v2"}
Intervals == {1, DefaultInterval}
InferTimes == {1, 2}

VARIABLES
    disk,          \* DiskPaths -> content
    newest,        \* the primary file with the most recent modification time
    fsOps,         \* number of file operations performed by the environment
    current,       \* ModelLoader._current_model
    compiled,      \* ModelLoader._compiled_model
    lock,          \* owner of ModelLoader._lock, or "free"
    hasCallback,   \* ModelLoader.on_model_reloaded is set
    cbLog,         \* invocations of the reload callback
    nextGen,       \* identity of the next compiled model / ModelInfo
    monitoring,    \* ModelLoader._monitoring
    monitorInterval, \* ModelLoader._monitor_interval
    pc,            \* position of every thread
    args,          \* arguments of the load_model call a thread is in
    minfo,         \* the ModelInfo a load_model call is building
    ret,           \* outcome of the last call of a thread
    last,          \* last_checksum, local to the watcher
    snapC,         \* compiled_model, local to infer
    snapM,         \* model_info, local to infer
    used,          \* the compiled models the forward pass ran on
    inferCount,    \* InferenceEngine._inference_count
    totalTime,     \* InferenceEngine._total_inference_time
    tmp,           \* the value an infer call has read for its += update
    okInfers,      \* infer calls completed since the statistics were reset
    okTime,        \* sum of the times these calls measured
    resets,        \* number of reset_statistics calls
    filter,        \* DetectionLogic.filter, a DetectionFilter
    detIn,         \* bounding_boxes of the result passed to filter_detections
    detOut,        \* bounding_boxes of the result it returned
    detErr,        \* outcome of the last DetectionLogic call
    boxes,         \* the boxes passed to PostProcessor._simple_nms
    nmsThreshold,  \* PostProcessor.nms_threshold
    sortedBoxes,   \* sorted_boxes, local to _simple_nms
    kept,          \* kept, local to _simple_nms and its return value
    nmsPc,         \* position of the _simple_nms call
    targetSize,    \* FramePreprocessor.target_size, (width, height)
    frameShape,    \* frame.shape[:2], (height, width)
    confThreshold, \* PostProcessor.confidence_threshold
    scale,         \* scale returned by preprocess
    padding,       \* (pad_x, pad_y) returned by preprocess
    rows,          \* the detection rows of the model output
    placed,        \* the pixel box the output row was placed at, if any
    decoded,       \* boxes, local to process_output, before NMS
    poOut,         \* the list process_output returned
    poPc,          \* position of the preprocess / process_output call
    resp,          \* the HTTP response to the last request of the inference API
    requests       \* number of requests the API has handled

vars == <<disk, newest, fsOps, current, compiled, lock, hasCallback, cbLog,
          nextGen, monitoring, monitorInterval, pc, args, minfo, ret, last, snapC, snapM,
          used, inferCount, totalTime, tmp, okInfers, okTime, resets,
          filter, detIn, detOut, detErr, boxes, nmsThreshold, sortedBoxes,
          kept, nmsPc, targetSize, frameShape, confThreshold, scale, padding,
          rows, placed, decoded, poOut, poPc,
          resp, requests>>

fsVars == <<disk, newest, fsOps>>
loaderVars == <<current, compiled, lock, cbLog, nextGen>>
statVars == <<inferCount, totalTime, tmp, okInfers, okTime, resets>>
inferVars == <<snapC, snapM, used, statVars>>
detVars == <<filter, detIn, detOut, detErr>>
nmsVars == <<boxes, nmsThreshold, sortedBoxes, kept, nmsPc>>
postVars == <<targetSize, frameShape, confThreshold, scale, padding, rows,
              placed, decoded, poOut, poPc>>
apiVars == <<resp, requests>>

(***************************************************************************)
(* Values.                                                                 *)
(***************************************************************************)
NoModel == [gen |-> 0, name |-> "", version |-> "", format |-> "",
            xml_path |-> NoPath, bin_path |-> NoPath, checksum |-> <<>>]
NoCompiled == [gen |-> 0, src |-> 0]
NoArgs == [name |-> "", format |-> "", version |-> ""]
NoRet == [status |-> "none", gen |-> 0]
Result(status, gen) == [status |-> status, gen |-> gen]

Exists(p) == p \in DOMAIN disk /\ disk[p] # Absent
Content(p) == IF p \in DOMAIN disk THEN disk[p] ELSE Absent

\* SHA-256 of a file, as a hex digest: a value that determines the content.
Sha(c) == <<"sha256", c>>


(***************************************************************************)
(* File resolution: ModelLoader._find_latest_version, _extract_version,    *)
(* _find_model_files, _validate_model_files.                               *)
(***************************************************************************)
\* filename.replace(f"{model_name}_", ""); an unchanged name means "latest".
ExtractVersion(p, name) ==
    IF p[1] = name /\ p[2] # "" THEN p[2] ELSE "latest"

\* Files matching {name}_*{ext}, plus the bare file {name}{ext} if present.
MatchingFiles(name, ext) ==
    {p \in DOMAIN disk : Exists(p) /\ p[1] = name /\ p[3] = ext}

\* Sorted by modification time, newest first; the first one is taken.
LatestFile(S) == IF newest \in S THEN newest ELSE CHOOSE p \in S : TRUE

WithSuffixBin(p) == <<p[1], p[2], "bin">>

FindLatestVersion(name, ext) ==
    LET matching == MatchingFiles(name, ext)
    IN  IF matching = {}
        THEN [ok |-> FALSE, file |-> NoPath, bin |-> NoPath, version |-> ""]
        ELSE LET latest == LatestFile(matching)
                 bin == WithSuffixBin(latest)
             IN  [ok |-> TRUE,
                  file |-> latest,
                  bin |-> IF ext = "xml" /\ Exists(bin) THEN bin ELSE NoPath,
                  version |-> ExtractVersion(latest, name)]

OrUnknown(version) == IF version = "" THEN "unknown" ELSE version

\* Returns [err, info]: err is "" on success, else the exception raised.
FindModelFiles(name, fmt, version) ==
    IF fmt = "openvino" THEN
        LET lv == FindLatestVersion(name, "xml")
            found == version # "" \/ lv.ok
            xml == IF version # "" THEN <<name, version, "xml">> ELSE lv.file
            bin == IF version # "" THEN <<name, version, "bin">> ELSE lv.bin
            ver == IF version # "" THEN version ELSE lv.version
        IN  IF ~found \/ ~Exists(xml)
            THEN [err |-> "FileNotFoundError", info |-> NoModel]
            ELSE [err |-> "",
                  info |-> [gen |-> 0, name |-> name,
                            version |-> OrUnknown(ver),
                            format |-> "openvino",
                            xml_path |-> xml,
                            bin_path |-> IF bin # NoPath /\ Exists(bin)
                                         THEN bin ELSE NoPath,
                            checksum |-> <<>>]]
    ELSE IF fmt = "onnx" THEN
        LET lv == FindLatestVersion(name, "onnx")
            found == version # "" \/ lv.ok
            onnx == IF version # "" THEN <<name, version, "onnx">> ELSE lv.file
            ver == IF version # "" THEN version ELSE lv.version
        IN  IF ~found \/ ~Exists(onnx)
            THEN [err |-> "FileNotFoundError", info |-> NoModel]
            ELSE [err |-> "",
                  info |-> [gen |-> 0, name |-> name,
                            version |-> OrUnknown(ver),
                            format |-> "onnx",
                            xml_path |-> onnx,
                            bin_path |-> NoPath,
                            checksum |-> <<>>]]
    ELSE [err |-> "ValueError", info |-> NoModel]

\* The checksum of the files a ModelInfo names, as the files are now:
\* hash(primary), or hash(primary) ":" hash(weights).  Only defined when
\* the files exist (_calculate_checksum raises otherwise).
ChecksumReadable(info) ==
    Exists(info.xml_path) /\ (info.bin_path # NoPath => Exists(info.bin_path))

CalculateChecksum(info) ==
    IF info.bin_path # NoPath
    THEN <<Sha(Content(info.xml_path)), Sha(Content(info.bin_path))>>
    ELSE <<Sha(Content(info.xml_path))>>

ValidateModelFiles(info) ==
    IF ~Exists(info.xml_path)
    THEN [err |-> "FileNotFoundError", info |-> info]
    ELSE IF info.format = "openvino" /\ info.bin_path # NoPath
            /\ ~Exists(info.bin_path)
    THEN [err |-> "FileNotFoundError", info |-> info]
    ELSE [err |-> "", info |-> [info EXCEPT !.checksum = CalculateChecksum(info)]]

\* _find_model_files followed by _validate_model_files.
ResolveModel(name, fmt, version) ==
    LET f == FindModelFiles(name, fmt, version)
    IN  IF f.err # "" THEN f ELSE ValidateModelFiles(f.info)

(***************************************************************************)
(* The opaque engine: core.read_model / core.compile_model and the shape   *)
(* queries of _load_openvino_model, as functions of the file bytes.        *)
(***************************************************************************)
ReadModelFails(c) == c \in {Absent, CorruptXml}
ShapeQueryFails(c) == c = MultiOutXml


(***************************************************************************)
(* Detections.  Confidences and thresholds are counted in tenths, so that  *)
(* Unit is the confidence 1.0; coordinates are whole pixels.  An optional  *)
(* value is a sequence: <<>> is None, <<v>> is the value v.                *)
(***************************************************************************)
Unit == 10
DefaultMinConfidence == 5
DefaultNmsThreshold == 4
InfArea == 1000

ClassNames == {"person", "car"}

BoundingBox(x1, y1, x2, y2, confidence, class_id, class_name) ==
    [x1 |-> x1, y1 |-> y1, x2 |-> x2, y2 |-> y2, confidence |-> confidence,
     class_id |-> class_id, class_name |-> class_name]

\* The boxes of the inputs: two boxes of different classes that overlap by
\* a third, two halves of the second of them, and a box apart from all.
BoxPool ==
    { BoundingBox(2, 0, 6, 2, 9, 0, "person"),
      BoundingBox(0, 0, 4, 2, 8, 2, "car"),
      BoundingBox(0, 0, 4, 1, 5, 0, "person"),
      BoundingBox(0, 1, 4, 2, 3, 0, "person"),
      BoundingBox(10, 10, 12, 12, 5, 2, "car") }

\* The lists of at most n boxes.
BoxLists(n) == UNION {[1..k -> BoxPool] : k \in 0..n}

\* DetectionFilter() with its defaults.
DefaultFilter ==
    [enabled_classes |-> <<>>, min_confidence |-> DefaultMinConfidence,
     min_area |-> 0, max_area |-> InfArea]

\* The DetectionFilter objects a DetectionLogic is constructed with: the
\* dataclass takes any values.
AreaRanges == {<<0, InfArea>>, <<4, 5>>, <<5, 8>>}
ConstructorFilters ==
    { [enabled_classes |-> e, min_confidence |-> m,
       min_area |-> r[1], max_area |-> r[2]] :
        e \in {<<>>, <<{"person"}>>},
        m \in {DefaultMinConfidence, Unit + 5},
        r \in AreaRanges }

\* Arguments of set_confidence_threshold and set_enabled_classes.
ThresholdArgs == {0 - 1, 0, DefaultMinConfidence, Unit, Unit + 5}
ClassArgs == {<<>>, << <<>> >>, << <<"person">> >>,
              << <<"car", "person", "car">> >>}

\* HTTP responses of the inference API: the status, the detail of an error,
\* and the bounding_boxes of each result.
Response(status, detail, results) ==
    [status |-> status, detail |-> detail, results |-> results]
NoResponse == Response(0, "", <<>>)

\* The image of a request: a base64 string that decodes to a frame, or not.
Images == {"good", "bad"}

\* The optional overrides of a request; pydantic admits confidence_threshold
\* within [0, 1] only.
ThresholdOverrides == {<<>>, <<3>>, <<8>>}
ClassOverrides == {<<>>, << <<"car">> >>}

\* What the forward pass and process_output yield for a frame once a model
\* is loaded: the engine raises, np.argmax raises ValueError on rows that
\* hold no class scores, or a list of boxes is returned.
ApiOutcomes ==
    { [err |-> "RuntimeError", detail |-> "engine", boxes |-> <<>>],
      [err |-> "ValueError", detail |-> "argmax of an empty sequence",
       boxes |-> <<>>] }
    \cup { [err |-> "", detail |-> "", boxes |-> <<b1, b2>>] :
             b1 \in {b \in BoxPool : b.class_name = "person"
                                       /\ b.confidence # DefaultMinConfidence},
             b2 \in {b \in BoxPool : b.class_name = "car"
                                       /\ b.confidence = DefaultMinConfidence} }

\* The configurations of the DetectionLogic behind the API: the defaults,
\* with all classes or with one class enabled.
ApiFilters ==
    {f \in ConstructorFilters :
        /\ f.min_confidence = DefaultMinConfidence
        /\ f.min_area = 0 /\ f.max_area = InfArea}

\* The images of a batch request, and the outcome of infer for each frame.
BatchImages == UNION {[1..k -> Images] : k \in 0..MaxBatch}
BatchOutcomes(n) == [1..n -> ApiOutcomes]

\* Values of nms_threshold.
NmsThresholds == {0, 3, DefaultNmsThreshold, 5}

\* Exact fractions <<numerator, denominator>> in lowest terms with a positive
\* denominator: the float values of the letterbox arithmetic.  The sizes and
\* rows below are dyadic, so float64 computes these values exactly.
RECURSIVE Gcd(_, _)
Gcd(a, b) == IF b = 0 THEN a ELSE Gcd(b, a % b)
Abs(n) == IF n < 0 THEN 0 - n ELSE n
Frac(n, d) ==
    LET g == Gcd(Abs(n), Abs(d))
        sgn == IF d < 0 THEN 0 - 1 ELSE 1
    IN  <<(sgn * n) \div g, (sgn * d) \div g>>
Whole(n) == <<n, 1>>
FAdd(a, b) == Frac(a[1] * b[2] + b[1] * a[2], a[2] * b[2])
FSub(a, b) == Frac(a[1] * b[2] - b[1] * a[2], a[2] * b[2])
FMul(a, b) == Frac(a[1] * b[1], a[2] * b[2])
FDiv(a, b) == Frac(a[1] * b[2], a[2] * b[1])
FLess(a, b) == a[1] * b[2] < b[1] * a[2]
FLeq(a, b) == a[1] * b[2] <= b[1] * a[2]
FMin(a, b) == IF FLess(b, a) THEN b ELSE a
FMax(a, b) == IF FLess(a, b) THEN b ELSE a
Floor(a) == a[1] \div a[2]

\* The side by which process_output multiplies normalized coordinates.
NormBase == 640

\* target_size of the InferenceEngine: the default and a smaller input.
TargetSizes == {<<NormBase, NormBase>>, <<320, 320>>}

\* frame.shape[:2] of the frames: 1280x720, 640x480 and 320x240.
FrameShapes == {<<720, 1280>>, <<480, 640>>, <<240, 320>>}

\* Values of confidence_threshold of the PostProcessor.
ConfThresholds == {3, DefaultMinConfidence}

\* The first class names of _get_coco_class_names.
CocoClassNames == <<"person", "bicycle", "car">>

\* A detection row [x_center, y_center, width, height, scores...] of the
\* output tensor; the coordinates are fractions, the scores tenths.
Row(x_center, y_center, width, height, class_scores) ==
    [x_center |-> x_center, y_center |-> y_center, width |-> width,
     height |-> height, class_scores |-> class_scores]

\* Rows of the outputs: a box in the middle, one reaching over the right
\* edge, one in the top margin, one of low confidence, one of no width, and
\* one whose two best scores are equal.
RowPool ==
    { Row(<<1, 2>>, <<1, 2>>, <<1, 4>>, <<1, 4>>, <<9, 1, 0>>),
      Row(<<15, 16>>, <<1, 2>>, <<1, 4>>, <<1, 4>>, <<0, 2, 8>>),
      Row(<<1, 2>>, <<1, 16>>, <<1, 4>>, <<1, 16>>, <<7, 0, 0>>),
      Row(<<1, 4>>, <<1, 2>>, <<1, 8>>, <<1, 8>>, <<3, 4, 2>>),
      Row(<<1, 2>>, <<1, 2>>, <<0, 1>>, <<1, 4>>, <<9, 0, 0>>),
      Row(<<3, 4>>, <<3, 4>>, <<1, 8>>, <<1, 8>>, <<5, 0, 5>>) }

\* The outputs of at most n rows.
RowLists(n) == UNION {[1..k -> RowPool] : k \in 0..n}

\* Pixel boxes <<x1, y1, x2, y2>> of a frame: the whole frame and a box
\* inside it.
PixelBoxes(shape) ==
    { <<0, 0, shape[2], shape[1]>>,
      <<shape[2] \div 4, shape[1] \div 4, shape[2] \div 2, shape[1] \div 2>> }

(***************************************************************************)
(* Initial state: ModelLoader.__init__ and InferenceEngine.__init__, with  *)
(* a model directory that holds a bare and a versioned model.              *)
(***************************************************************************)
EngineStart ==
    /\ fsOps = 0
    /\ current = NoModel
    /\ compiled = NoCompiled
    /\ lock = "free"
    /\ hasCallback \in BOOLEAN
    /\ cbLog = <<>>
    /\ nextGen = 1
    /\ monitoring = FALSE
    /\ monitorInterval = DefaultInterval
    /\ pc = [t \in Threads |-> IF t \in AllWatchers THEN "none" ELSE "idle"]
    /\ args = [t \in LoaderThreads |-> NoArgs]
    /\ minfo = [t \in LoaderThreads |-> NoModel]
    /\ ret = [t \in Operators \cup Callers |-> NoRet]
    /\ last = [w \in AllWatchers |-> <<>>]
    /\ snapC = [i \in Callers |-> NoCompiled]
    /\ snapM = [i \in Callers |-> NoModel]
    /\ used = [i \in Callers |-> <<>>]
    /\ inferCount = 0
    /\ totalTime = 0
    /\ tmp = [i \in Callers |-> 0]
    /\ okInfers = 0
    /\ okTime = 0
    /\ resets = 0

\* The loader and the engine as constructed, over a model directory that
\* holds the bare and the versioned model.
EngineInit ==
    /\ disk = (BareXml :> 1) @@ (BareBin :> 1) @@ (VerXml :> 2) @@ (VerBin :> 1)
    /\ newest \in XmlPaths
    /\ EngineStart

\* The same over a model directory that holds the versioned model and a
\* model of the other format.
EngineTwoFormats ==
    /\ disk = (VerXml :> 2) @@ (VerBin :> 1) @@ (OnnxFile :> 1)
    /\ newest = VerXml
    /\ EngineStart
    /\ ~hasCallback

\* DetectionLogic() before any call.
DetIdle ==
    /\ filter = DefaultFilter
    /\ detIn = <<>>
    /\ detOut = <<>>
    /\ detErr = "none"

\* PostProcessor() with no _simple_nms call in progress.
NmsIdle ==
    /\ boxes = <<>>
    /\ nmsThreshold = DefaultNmsThreshold
    /\ sortedBoxes = <<>>
    /\ kept = <<>>
    /\ nmsPc = "done"

\* An InferenceEngine() with its defaults and no frame in work.
PostIdle ==
    /\ targetSize = <<NormBase, NormBase>>
    /\ frameShape = <<480, 640>>
    /\ confThreshold = DefaultMinConfidence
    /\ scale = <<1, 1>>
    /\ padding = <<0, 0>>
    /\ rows = <<>>
    /\ placed = <<>>
    /\ decoded = <<>>
    /\ poOut = <<>>
    /\ poPc = "done"

\* The API with no request handled.
ApiIdle ==
    /\ resp = NoResponse
    /\ requests = 0

Init == EngineInit /\ DetIdle /\ NmsIdle /\ PostIdle /\ ApiIdle

\* The engine as constructed, with no call made.
EngineIdle == EngineInit /\ newest = VerXml /\ ~hasCallback

\* DetectionLogic(detection_filter) for any DetectionFilter.
DetInit ==
    /\ EngineIdle
    /\ filter \in ConstructorFilters
    /\ detIn = <<>>
    /\ detOut = <<>>
    /\ detErr = "none"
    /\ NmsIdle
    /\ PostIdle
    /\ ApiIdle

\* A call of _simple_nms(boxes) on a PostProcessor(nms_threshold=...).
NmsInit ==
    /\ EngineIdle
    /\ DetIdle
    /\ boxes \in BoxLists(MaxNmsBoxes)
    /\ nmsThreshold \in NmsThresholds
    /\ sortedBoxes = <<>>
    /\ kept = <<>>
    /\ nmsPc = "call"
    /\ PostIdle
    /\ ApiIdle

\* InferenceEngine(loader, confidence_threshold, nms_threshold, target_size)
\* at the point where infer(frame) calls preprocess.
PostInit ==
    /\ EngineIdle
    /\ DetIdle
    /\ NmsIdle
    /\ targetSize \in TargetSizes
    /\ frameShape \in FrameShapes
    /\ confThreshold \in ConfThresholds
    /\ scale = <<1, 1>>
    /\ padding = <<0, 0>>
    /\ rows = <<>>
    /\ placed = <<>>
    /\ decoded = <<>>
    /\ poOut = <<>>
    /\ poPc = "preprocess"
    /\ ApiIdle

\* setup_inference_endpoints(app, inference_engine, detection_logic) with
\* a DetectionLogic of any configuration.
ApiInit ==
    /\ EngineIdle
    /\ filter \in ApiFilters
    /\ detIn = <<>>
    /\ detOut = <<>>
    /\ detErr = "none"
    /\ NmsIdle
    /\ PostIdle
    /\ ApiIdle

\* The outcome of a call as its caller sees it; the watcher discards it.
Returned(t, r) == IF t \in DOMAIN ret THEN [ret EXCEPT ![t] = r] ELSE ret

(***************************************************************************)
(* The environment rewrites, creates or deletes a file of the directory.   *)
(***************************************************************************)
WriteFile(p, c) ==
    /\ fsOps < MaxFileOps
    /\ c # disk[p]
    /\ disk' = [disk EXCEPT ![p] = c]
    /\ newest' = IF p \in XmlPaths /\ c # Absent THEN p ELSE newest
    /\ fsOps' = fsOps + 1
    /\ UNCHANGED <<loaderVars, hasCallback, monitoring, monitorInterval, pc,
                   args, minfo, ret, last, inferVars, detVars, apiVars, postVars, nmsVars>>

(***************************************************************************)
(* load_model.  The call takes the loader lock, resolves and validates     *)
(* the files (BeginLoad), then reads and compiles the model, publishes it  *)
(* and notifies the callback (FinishLoad), all under the lock.             *)
(***************************************************************************)
\* Where a thread continues when its load_model call returns or raises.
WatcherAfterFailure == "loop"

AfterLoad(t, ok) ==
    IF t \in AllWatchers
    THEN (IF ok THEN "update" ELSE WatcherAfterFailure)
    ELSE "idle"

\* if self.on_model_reloaded and old_model is not None
CallbackDueAlways(cb, old) == cb

CallbackDue(cb, old) == cb /\ old # NoModel

\* try: self.on_model_reloaded(model_info) / except Exception: log
StatusCallbackPropagates(raised) == IF raised THEN "CallbackError" ELSE "ok"

StatusAfterCallback(raised) == "ok"

BeginLoad(t, name, fmt, version) ==
    /\ lock = "free"
    /\ nextGen <= MaxLoads
    /\ LET r == ResolveModel(name, fmt, version)
       IN  IF r.err # ""
           THEN /\ ret' = Returned(t, Result(r.err, 0))
                /\ pc' = [pc EXCEPT ![t] = AfterLoad(t, FALSE)]
                /\ UNCHANGED <<lock, minfo>>
           ELSE /\ lock' = t
                /\ minfo' = [minfo EXCEPT ![t] = r.info]
                /\ pc' = [pc EXCEPT ![t] = "compile"]
                /\ UNCHANGED ret
    /\ args' = [args EXCEPT ![t] = NoArgs]
    /\ UNCHANGED <<fsVars, apiVars, postVars, detVars, nmsVars, current, compiled, cbLog,
                   nextGen, hasCallback, monitoring, monitorInterval, last,
                   inferVars>>

\* load_model called by an administrative thread.
LoadModel(t, fmt, version) ==
    /\ pc[t] = "idle"
    /\ BeginLoad(t, ModelName, fmt, version)

\* load_model entered from reload_model.
Resolve(t) ==
    /\ pc[t] = "resolve"
    /\ BeginLoad(t, args[t].name, args[t].format, args[t].version)

\* _load_openvino_model, then lines 127-148 of load_model.
FinishLoad(t) ==
    /\ pc[t] = "compile"
    /\ lock = t
    /\ LET c == Content(minfo[t].xml_path)
           g == nextGen
           info == [minfo[t] EXCEPT !.gen = g]
       IN  IF ReadModelFails(c)
           THEN /\ ret' = Returned(t, Result("RuntimeError", 0))
                /\ pc' = [pc EXCEPT ![t] = AfterLoad(t, FALSE)]
                /\ UNCHANGED <<current, compiled, cbLog, nextGen>>
           ELSE /\ compiled' = [gen |-> g, src |-> c]
                /\ nextGen' = g + 1
                /\ IF ShapeQueryFails(c)
                   THEN /\ ret' = Returned(t, Result("RuntimeError", 0))
                        /\ pc' = [pc EXCEPT ![t] = AfterLoad(t, FALSE)]
                        /\ UNCHANGED <<current, cbLog>>
                   ELSE /\ current' = info
                        /\ IF CallbackDue(hasCallback, current)
                           THEN \E raised \in BOOLEAN :
                                  /\ cbLog' = Append(cbLog, [gen |-> g,
                                                             raised |-> raised])
                                  /\ ret' = Returned(t, Result(StatusAfterCallback(raised), g))
                           ELSE /\ cbLog' = cbLog
                                /\ ret' = Returned(t, Result("ok", g))
                        /\ pc' = [pc EXCEPT ![t] = AfterLoad(t, TRUE)]
    /\ lock' = "free"
    /\ minfo' = [minfo EXCEPT ![t] = NoModel]
    /\ UNCHANGED <<fsVars, apiVars, postVars, detVars, nmsVars, hasCallback, monitoring,
                   monitorInterval, args, last, inferVars>>

(***************************************************************************)
(* reload_model: reads the identity of the current model without the lock  *)
(* and calls load_model with it.                                           *)
(***************************************************************************)
\* if self._current_model is None: raise RuntimeError(...)
NoModelLoadedUnchecked(cur) == FALSE

NoModelLoaded(cur) == cur = NoModel

ReloadCall(t, failPc) ==
    /\ IF NoModelLoaded(current)
       THEN /\ ret' = Returned(t, Result("NoModelLoaded", 0))
            /\ pc' = [pc EXCEPT ![t] = failPc]
            /\ UNCHANGED args
       ELSE /\ args' = [args EXCEPT ![t] = [name |-> current.name,
                                            format |-> current.format,
                                            version |-> current.version]]
            /\ pc' = [pc EXCEPT ![t] = "resolve"]
            /\ UNCHANGED ret
    /\ UNCHANGED <<fsVars, apiVars, postVars, detVars, nmsVars, loaderVars, hasCallback,
                   monitoring, monitorInterval, minfo, last, inferVars>>

ReloadModel(t) ==
    /\ pc[t] = "idle"
    /\ ReloadCall(t, "idle")

\* reload_model as other threads see it: the check and the three argument
\* expressions each read self._current_model, and no lock is held.
ReloadCheck(t) ==
    /\ pc[t] = "idle"
    /\ IF NoModelLoaded(current)
       THEN /\ ret' = Returned(t, Result("NoModelLoaded", 0))
            /\ UNCHANGED pc
       ELSE /\ pc' = [pc EXCEPT ![t] = "name"]
            /\ UNCHANGED ret
    /\ UNCHANGED <<fsVars, apiVars, postVars, detVars, nmsVars, loaderVars,
                   hasCallback, monitoring, monitorInterval, args, minfo,
                   last, inferVars>>

ReloadReadName(t) ==
    /\ pc[t] = "name"
    /\ args' = [args EXCEPT ![t] = [NoArgs EXCEPT !.name = current.name]]
    /\ pc' = [pc EXCEPT ![t] = "format"]
    /\ UNCHANGED <<fsVars, apiVars, postVars, detVars, nmsVars, loaderVars,
                   hasCallback, monitoring, monitorInterval, minfo, ret,
                   last, inferVars>>

ReloadReadFormat(t) ==
    /\ pc[t] = "format"
    /\ args' = [args EXCEPT ![t].format = current.format]
    /\ pc' = [pc EXCEPT ![t] = "version"]
    /\ UNCHANGED <<fsVars, apiVars, postVars, detVars, nmsVars, loaderVars,
                   hasCallback, monitoring, monitorInterval, minfo, ret,
                   last, inferVars>>

ReloadReadVersion(t) ==
    /\ pc[t] = "version"
    /\ args' = [args EXCEPT ![t].version = current.version]
    /\ pc' = [pc EXCEPT ![t] = "resolve"]
    /\ UNCHANGED <<fsVars, apiVars, postVars, detVars, nmsVars, loaderVars,
                   hasCallback, monitoring, monitorInterval, minfo, ret,
                   last, inferVars>>


(***************************************************************************)
(* start_hot_reload_monitoring / stop_hot_reload_monitoring.               *)
(* StartMonitoring is the call of a single administrative caller made once *)
(* the previous watcher thread has ended; StartCheck and StartSpawn are    *)
(* the call statement by statement, for concurrent callers and for a start *)
(* made while an earlier watcher thread is still alive.                    *)
(***************************************************************************)
WatcherFree(w) == pc[w] \in {"none", "done"}

\* if self._monitoring: return / if self._current_model is None: return
StartRefusedWhenRunning(mon, cur) == mon

StartRefused(mon, cur) == mon \/ cur = NoModel

StartMonitoring(t, interval) ==
    /\ pc[t] = "idle"
    /\ IF StartRefused(monitoring, current)
       THEN UNCHANGED <<monitoring, monitorInterval, pc>>
       ELSE \E w \in Watchers :
              /\ WatcherFree(w)
              /\ monitorInterval' = interval
              /\ monitoring' = TRUE
              /\ pc' = [pc EXCEPT ![w] = "init"]
    /\ UNCHANGED <<fsVars, apiVars, postVars, detVars, nmsVars, loaderVars, hasCallback, args,
                   minfo, ret, last, inferVars>>

\* start_hot_reload_monitoring as other threads see it: the two checks
\* (346-352) hold no lock and are a step of their own, ...
StartCheck(t) ==
    /\ pc[t] = "idle"
    /\ pc' = [pc EXCEPT ![t] = IF StartRefused(monitoring, current)
                               THEN "idle" ELSE "spawn"]
    /\ UNCHANGED <<fsVars, apiVars, postVars, detVars, nmsVars, loaderVars,
                   hasCallback, monitoring, monitorInterval, args, minfo,
                   ret, last, inferVars>>

\* ... before the assignments and the start of a new thread w (354-361).
StartSpawn(t, interval, w) ==
    /\ pc[t] = "spawn"
    /\ WatcherFree(w)
    /\ monitorInterval' = interval
    /\ monitoring' = TRUE
    /\ pc' = [pc EXCEPT ![w] = "init", ![t] = "idle"]
    /\ UNCHANGED <<fsVars, apiVars, postVars, detVars, nmsVars, loaderVars,
                   hasCallback, args, minfo, ret, last, inferVars>>

StopMonitoring(t) ==
    /\ pc[t] = "idle"
    /\ IF ~monitoring
       THEN UNCHANGED <<monitoring, pc>>
       ELSE /\ monitoring' = FALSE
            /\ pc' = [pc EXCEPT ![t] = "join"]
    /\ UNCHANGED <<fsVars, apiVars, postVars, detVars, nmsVars, loaderVars, hasCallback,
                   monitorInterval, args, minfo, ret, last, inferVars>>

\* self._monitor_thread.join(timeout=2.0) returns: the thread has ended or
\* the timeout has expired.
JoinReturn(t) ==
    /\ pc[t] = "join"
    /\ pc' = [pc EXCEPT ![t] = "idle"]
    /\ UNCHANGED <<fsVars, apiVars, postVars, detVars, nmsVars, loaderVars, hasCallback,
                   monitoring, monitorInterval, args, minfo, ret, last,
                   inferVars>>

(***************************************************************************)
(* _monitor_loop, the watcher thread.                                      *)
(***************************************************************************)
\* if current_checksum != last_checksum
ChecksumChanged(fresh, lastSeen) == fresh # lastSeen

\* last_checksum = self._current_model.checksum, after reload_model()
ChecksumNotUpdated(cur, w) == last[w]

ChecksumAfterReload(cur, w) == cur.checksum

WatcherInit(w) ==
    /\ pc[w] = "init"
    /\ last' = [last EXCEPT ![w] = current.checksum]
    /\ pc' = [pc EXCEPT ![w] = "loop"]
    /\ UNCHANGED <<fsVars, apiVars, postVars, detVars, nmsVars, loaderVars, hasCallback,
                   monitoring, monitorInterval, args, minfo, ret, inferVars>>

\* while self._monitoring: ... time.sleep(self._monitor_interval)
LoopForever(mon) == TRUE

LoopContinues(mon) == mon

WatcherLoop(w) ==
    /\ pc[w] = "loop"
    /\ pc' = [pc EXCEPT ![w] = IF LoopContinues(monitoring) THEN "sleep"
                                                            ELSE "done"]
    /\ UNCHANGED <<fsVars, apiVars, postVars, detVars, nmsVars, loaderVars, hasCallback,
                   monitoring, monitorInterval, args, minfo, ret, last,
                   inferVars>>

\* The wake-up: lines 387-400.  A file that cannot be read raises, which
\* the outer handler logs.
WatcherWake(w) ==
    /\ pc[w] = "sleep"
    /\ pc' = [pc EXCEPT ![w] =
                IF current = NoModel THEN "done"
                ELSE IF ~ChecksumReadable(current) THEN "loop"
                ELSE IF ChecksumChanged(CalculateChecksum(current), last[w])
                     THEN "reload"
                     ELSE "loop"]
    /\ UNCHANGED <<fsVars, apiVars, postVars, detVars, nmsVars, loaderVars, hasCallback,
                   monitoring, monitorInterval, args, minfo, ret, last,
                   inferVars>>

\* self.reload_model() in the watcher; a failure is caught and logged.
WatcherReload(w) ==
    /\ pc[w] = "reload"
    /\ ReloadCall(w, WatcherAfterFailure)

WatcherUpdate(w) ==
    /\ pc[w] = "update"
    /\ last' = [last EXCEPT ![w] = ChecksumAfterReload(current, w)]
    /\ pc' = [pc EXCEPT ![w] = "loop"]
    /\ UNCHANGED <<fsVars, apiVars, postVars, detVars, nmsVars, loaderVars, hasCallback,
                   monitoring, monitorInterval, args, minfo, ret, inferVars>>

(***************************************************************************)
(* InferenceEngine.infer.                                                  *)
(***************************************************************************)
\* The model the forward pass runs on: the local compiled_model.
InferModelReread(i) == compiled

InferModel(i) == snapC[i]

\* if compiled_model is None: raise RuntimeError("Model not loaded. ...")
CompiledMissingUnchecked(c) == FALSE

CompiledMissing(c) == c = NoCompiled

\* compiled_model = self.model_loader.get_compiled_model()
InferCall(i) ==
    /\ pc[i] = "idle"
    /\ inferCount < MaxInfers
    /\ lock = "free"
    /\ IF CompiledMissing(compiled)
       THEN /\ ret' = Returned(i, Result("ModelNotLoaded", 0))
            /\ UNCHANGED <<pc, snapC>>
       ELSE /\ snapC' = [snapC EXCEPT ![i] = compiled]
            /\ pc' = [pc EXCEPT ![i] = "getinfo"]
            /\ UNCHANGED ret
    /\ UNCHANGED <<fsVars, apiVars, postVars, detVars, nmsVars, loaderVars, hasCallback,
                   monitoring, monitorInterval, args, minfo, last, snapM,
                   used, statVars>>

\* model_info = self.model_loader.get_current_model()
InferGetInfo(i) ==
    /\ pc[i] = "getinfo"
    /\ lock = "free"
    /\ IF current = NoModel
       THEN /\ ret' = Returned(i, Result("ModelNotLoaded", 0))
            /\ pc' = [pc EXCEPT ![i] = "idle"]
            /\ snapC' = [snapC EXCEPT ![i] = NoCompiled]
            /\ UNCHANGED snapM
       ELSE /\ snapM' = [snapM EXCEPT ![i] = current]
            /\ pc' = [pc EXCEPT ![i] = "run"]
            /\ UNCHANGED <<ret, snapC>>
    /\ UNCHANGED <<fsVars, apiVars, postVars, detVars, nmsVars, loaderVars, hasCallback,
                   monitoring, monitorInterval, args, minfo, last, used,
                   statVars>>

\* result = compiled_model([preprocessed]): the forward pass starts ...
InferRunBegin(i) ==
    /\ pc[i] = "run"
    /\ used' = [used EXCEPT ![i] = <<InferModel(i)>>]
    /\ pc' = [pc EXCEPT ![i] = "running"]
    /\ UNCHANGED <<fsVars, apiVars, postVars, detVars, nmsVars, loaderVars, hasCallback,
                   monitoring, monitorInterval, args, minfo, ret, last,
                   snapC, snapM, statVars>>

\* ... and ends.
InferRunEnd(i) ==
    /\ pc[i] = "running"
    /\ used' = [used EXCEPT ![i] = Append(used[i], InferModel(i))]
    /\ pc' = [pc EXCEPT ![i] = "post"]
    /\ UNCHANGED <<fsVars, apiVars, postVars, detVars, nmsVars, loaderVars, hasCallback,
                   monitoring, monitorInterval, args, minfo, ret, last,
                   snapC, snapM, statVars>>

\* Post-processing (lines 450-458), then the read of
\* self._inference_count += 1: the statement reads the attribute, adds and
\* stores, and no lock is held, so other threads run in between.
InferPost(i) ==
    /\ pc[i] = "post"
    /\ tmp' = [tmp EXCEPT ![i] = inferCount]
    /\ pc' = [pc EXCEPT ![i] = "count"]
    /\ UNCHANGED <<fsVars, apiVars, postVars, detVars, nmsVars, loaderVars, hasCallback,
                   monitoring, monitorInterval, args, minfo, ret, last,
                   snapC, snapM, used, inferCount, totalTime, okInfers,
                   okTime, resets>>

\* The store of self._inference_count += 1, then the read of
\* self._total_inference_time += inference_time.
InferCount(i) ==
    /\ pc[i] = "count"
    /\ inferCount' = tmp[i] + 1
    /\ tmp' = [tmp EXCEPT ![i] = totalTime]
    /\ pc' = [pc EXCEPT ![i] = "total"]
    /\ UNCHANGED <<fsVars, apiVars, postVars, detVars, nmsVars, loaderVars, hasCallback,
                   monitoring, monitorInterval, args, minfo, ret, last,
                   snapC, snapM, used, totalTime, okInfers, okTime, resets>>

\* The store of self._total_inference_time += inference_time, and the
\* return; t is the inference_time the call measured at line 458, a value
\* local to the call until this store.
InferFinish(i, t) ==
    /\ pc[i] = "total"
    /\ totalTime' = tmp[i] + t
    /\ okInfers' = okInfers + 1
    /\ okTime' = okTime + t
    /\ ret' = [ret EXCEPT ![i] = [status |-> "ok", gen |-> used[i][1].gen]]
    /\ pc' = [pc EXCEPT ![i] = "idle"]
    /\ snapC' = [snapC EXCEPT ![i] = NoCompiled]
    /\ snapM' = [snapM EXCEPT ![i] = NoModel]
    /\ used' = [used EXCEPT ![i] = <<>>]
    /\ tmp' = [tmp EXCEPT ![i] = 0]
    /\ UNCHANGED <<fsVars, apiVars, postVars, detVars, nmsVars, loaderVars, hasCallback,
                   monitoring, monitorInterval, args, minfo, last,
                   inferCount, resets>>

(***************************************************************************)
(* InferenceEngine.get_statistics and reset_statistics.                    *)
(***************************************************************************)
\* What get_statistics returns when no other thread writes the counters
\* during the call.
GetStatistics ==
    [total_inferences |-> inferCount, total_time_ms |-> totalTime]

\* self._inference_count = 0
ResetCount(c) ==
    /\ pc[c] = "idle"
    /\ resets < MaxResets
    /\ resets' = resets + 1
    /\ inferCount' = 0
    /\ okInfers' = 0
    /\ okTime' = 0
    /\ pc' = [pc EXCEPT ![c] = "reset"]
    /\ UNCHANGED <<fsVars, apiVars, postVars, detVars, nmsVars, loaderVars, hasCallback,
                   monitoring, monitorInterval, args, minfo, ret, last,
                   snapC, snapM, used, totalTime, tmp>>

\* self._total_inference_time = 0.0
ResetTime(c) ==
    /\ pc[c] = "reset"
    /\ totalTime' = 0
    /\ pc' = [pc EXCEPT ![c] = "idle"]
    /\ UNCHANGED <<fsVars, apiVars, postVars, detVars, nmsVars, loaderVars, hasCallback,
                   monitoring, monitorInterval, args, minfo, ret, last,
                   snapC, snapM, used, inferCount, tmp, okInfers, okTime,
                   resets>>

(***************************************************************************)
(* DetectionLogic: the setters and filter_detections.                      *)
(***************************************************************************)
\* if not (0.0 <= threshold <= 1.0): raise ValueError
ThresholdNonNegative(threshold) == 0 <= threshold

ThresholdValid(threshold) == 0 <= threshold /\ threshold <= Unit

SetConfidenceThreshold(threshold) ==
    /\ IF ThresholdValid(threshold)
       THEN /\ filter' = [filter EXCEPT !.min_confidence = threshold]
            /\ detErr' = "ok"
       ELSE /\ detErr' = "ValueError"
            /\ UNCHANGED filter
    /\ UNCHANGED <<detIn, detOut, nmsVars, fsVars, apiVars, postVars, loaderVars, hasCallback,
                   monitoring, monitorInterval, pc, args, minfo, ret, last,
                   inferVars>>

\* set(class_names)
ToSet(class_names) == {class_names[k] : k \in DOMAIN class_names}

SetEnabledClasses(class_names) ==
    /\ filter' = [filter EXCEPT !.enabled_classes =
                     IF class_names # <<>> THEN <<ToSet(class_names[1])>>
                                           ELSE <<>>]
    /\ detErr' = "ok"
    /\ UNCHANGED <<detIn, detOut, nmsVars, fsVars, apiVars, postVars, loaderVars, hasCallback,
                   monitoring, monitorInterval, pc, args, minfo, ret, last,
                   inferVars>>

\* The three checks of the loop body of filter_detections.
ConfidenceAbove(box, f) == box.confidence > f.min_confidence

ConfidencePasses(box, f) == ~(box.confidence < f.min_confidence)

ClassPasses(box, f) ==
    f.enabled_classes # <<>> => box.class_name \in f.enabled_classes[1]

Area(box) == (box.x2 - box.x1) * (box.y2 - box.y1)

AreaPasses(box, f) == ~(Area(box) < f.min_area \/ Area(box) > f.max_area)

\* The loop of filter_detections over result.bounding_boxes.
RECURSIVE FilteredBoxes(_, _)
FilteredBoxes(bs, f) ==
    IF bs = <<>> THEN <<>>
    ELSE LET box == Head(bs)
             rest == FilteredBoxes(Tail(bs), f)
         IN  IF ~ConfidencePasses(box, f) THEN rest
             ELSE IF ~ClassPasses(box, f) THEN rest
             ELSE IF ~AreaPasses(box, f) THEN rest
             ELSE <<box>> \o rest

FilterDetections(bs) ==
    /\ detIn' = bs
    /\ detOut' = FilteredBoxes(bs, filter)
    /\ detErr' = "ok"
    /\ UNCHANGED <<filter, nmsVars, fsVars, apiVars, postVars, loaderVars, hasCallback,
                   monitoring, monitorInterval, pc, args, minfo, ret, last,
                   inferVars>>

(***************************************************************************)
(* PostProcessor._simple_nms and _calculate_iou.                           *)
(***************************************************************************)
Max(a, b) == IF a >= b THEN a ELSE b
Min(a, b) == IF a <= b THEN a ELSE b

\* _calculate_iou, as the fraction <<numerator, denominator>>.
CalculateIou(box1, box2) ==
    LET x1_inter == Max(box1.x1, box2.x1)
        y1_inter == Max(box1.y1, box2.y1)
        x2_inter == Min(box1.x2, box2.x2)
        y2_inter == Min(box1.y2, box2.y2)
        inter_area == (x2_inter - x1_inter) * (y2_inter - y1_inter)
        union_area == Area(box1) + Area(box2) - inter_area
    IN  IF x2_inter <= x1_inter \/ y2_inter <= y1_inter THEN <<0, 1>>
        ELSE IF union_area = 0 THEN <<0, 1>>
        ELSE <<inter_area, union_area>>

\* iou < threshold, for a threshold in tenths.
IouBelow(iou, threshold) == iou[1] * Unit < threshold * iou[2]

\* if iou < self.nms_threshold: remaining.append(box)
StaysIfOverlapping(cur, box, threshold) ==
    ~IouBelow(CalculateIou(cur, box), threshold)

Stays(cur, box, threshold) ==
    IouBelow(CalculateIou(cur, box), threshold)

\* An inner loop that compares current with the next box only and keeps the
\* others unexamined.
RemainingFirstOnly(cur, bs, threshold) ==
    IF bs = <<>> THEN <<>>
    ELSE (IF Stays(cur, Head(bs), threshold) THEN <<Head(bs)>> ELSE <<>>)
         \o Tail(bs)

\* The inner loop: the boxes of sorted_boxes that remain after the box
\* current (cur).
RECURSIVE Remaining(_, _, _)
Remaining(cur, bs, threshold) ==
    IF bs = <<>> THEN <<>>
    ELSE (IF Stays(cur, Head(bs), threshold) THEN <<Head(bs)>> ELSE <<>>)
         \o Remaining(cur, Tail(bs), threshold)

\* sorted(boxes, key=lambda b: b.confidence, reverse=True): a stable sort,
\* boxes of equal confidence keep their order.
RECURSIVE SortedByConfidence(_)
SortedByConfidence(bs) ==
    IF bs = <<>> THEN <<>>
    ELSE LET b == Head(bs)
             rest == SortedByConfidence(Tail(bs))
             Higher(x) == x.confidence > b.confidence
             NotHigher(x) == ~(x.confidence > b.confidence)
         IN  SelectSeq(rest, Higher) \o <<b>> \o SelectSeq(rest, NotHigher)

\* The while loop of _simple_nms.
RECURSIVE NmsLoop(_, _, _)
NmsLoop(sorted, acc, threshold) ==
    IF sorted = <<>> THEN acc
    ELSE NmsLoop(Remaining(Head(sorted), Tail(sorted), threshold),
                 Append(acc, Head(sorted)), threshold)

\* _simple_nms(boxes) with self.nms_threshold = threshold.
SimpleNms(bs, threshold) ==
    IF bs = <<>> THEN <<>>
    ELSE NmsLoop(SortedByConfidence(bs), <<>>, threshold)

\* The call, step by step: the sort, ...
NmsSort ==
    /\ nmsPc = "call"
    /\ IF boxes = <<>>
       THEN nmsPc' = "done" /\ UNCHANGED sortedBoxes
       ELSE nmsPc' = "loop" /\ sortedBoxes' = SortedByConfidence(boxes)
    /\ UNCHANGED <<boxes, nmsThreshold, kept, detVars, fsVars, apiVars, postVars, loaderVars,
                   hasCallback, monitoring, monitorInterval, pc, args, minfo,
                   ret, last, inferVars>>

\* ... one iteration of the while loop, ...
NmsTake ==
    /\ nmsPc = "loop"
    /\ sortedBoxes # <<>>
    /\ kept' = Append(kept, Head(sortedBoxes))
    /\ sortedBoxes' = Remaining(Head(sortedBoxes), Tail(sortedBoxes),
                                nmsThreshold)
    /\ UNCHANGED <<boxes, nmsThreshold, nmsPc, detVars, fsVars, apiVars, postVars, loaderVars,
                   hasCallback, monitoring, monitorInterval, pc, args, minfo,
                   ret, last, inferVars>>

\* ... and return kept.
NmsReturn ==
    /\ nmsPc = "loop"
    /\ sortedBoxes = <<>>
    /\ nmsPc' = "done"
    /\ UNCHANGED <<boxes, nmsThreshold, sortedBoxes, kept, detVars, fsVars, apiVars, postVars,
                   loaderVars, hasCallback, monitoring, monitorInterval, pc,
                   args, minfo, ret, last, inferVars>>

(***************************************************************************)
(* The inference API: the handlers of /inference, /inference/batch and     *)
(* /inference/file.  A handler is a coroutine without an await between     *)
(* its first and its last statement, so requests do not interleave.        *)
(***************************************************************************)
\* except ValueError: 400; except RuntimeError: 500; except Exception: 500
StatusOf(err) == IF err = "ValueError" THEN 400 ELSE 500

\* detection_logic.set_confidence_threshold(request.confidence_threshold)
\* and detection_logic.set_enabled_classes(request.enabled_classes), for
\* the values of the request that are not None.
ApplyOverrides(f, threshold, classes) ==
    LET f1 == IF threshold # <<>>
              THEN [f EXCEPT !.min_confidence = threshold[1]] ELSE f
    IN  IF classes # <<>>
        THEN [f1 EXCEPT !.enabled_classes = <<ToSet(classes[1])>>]
        ELSE f1

\* inference_engine.infer(frame) as the handler sees it: the exception it
\* raises or the boxes it returns.
ApiInfer(out) ==
    IF CompiledMissing(compiled) \/ current = NoModel
    THEN [err |-> "RuntimeError", detail |-> "Model not loaded",
          boxes |-> <<>>]
    ELSE out

\* The statistics after n successful infer calls, each measured as 1 ms.
CountInfers(n) ==
    /\ inferCount' = inferCount + n
    /\ totalTime' = totalTime + n
    /\ okInfers' = okInfers + n
    /\ okTime' = okTime + n
    /\ UNCHANGED <<tmp, resets>>

\* The body of a single-image handler once the frame is decoded.
HandleFrame(threshold, classes, out) ==
    LET f == ApplyOverrides(filter, threshold, classes)
        r == ApiInfer(out)
    IN  /\ lock = "free"
        /\ filter' = f
        /\ detErr' = detErr
        /\ IF r.err # ""
           THEN /\ resp' = Response(StatusOf(r.err), r.detail, <<>>)
                /\ UNCHANGED <<detIn, detOut, statVars>>
           ELSE /\ detIn' = r.boxes
                /\ detOut' = FilteredBoxes(r.boxes, f)
                /\ resp' = Response(200, "", <<FilteredBoxes(r.boxes, f)>>)
                /\ CountInfers(1)

\* POST /inference
InferenceEndpoint(image, threshold, classes, out) ==
    /\ requests < MaxRequests
    /\ requests' = requests + 1
    /\ IF image = "bad"
       THEN /\ resp' = Response(StatusOf("ValueError"),
                                "Failed to decode image", <<>>)
            /\ UNCHANGED <<detVars, statVars>>
       ELSE HandleFrame(threshold, classes, out)
    /\ UNCHANGED <<fsVars, postVars, nmsVars, loaderVars, hasCallback,
                   monitoring, monitorInterval, pc, args, minfo, ret, last,
                   snapC, snapM, used>>

\* POST /inference/file: the same without overrides.
InferenceFileEndpoint(image, out) ==
    /\ requests < MaxRequests
    /\ requests' = requests + 1
    /\ IF image = "bad"
       THEN /\ resp' = Response(StatusOf("ValueError"),
                                "Failed to decode uploaded image", <<>>)
            /\ UNCHANGED <<detVars, statVars>>
       ELSE HandleFrame(<<>>, <<>>, out)
    /\ UNCHANGED <<fsVars, postVars, nmsVars, loaderVars, hasCallback,
                   monitoring, monitorInterval, pc, args, minfo, ret, last,
                   snapC, snapM, used>>

\* The index of the first frame of a batch whose infer call raises, or 0.
FirstFailure(outs) ==
    IF \E k \in 1..Len(outs) : ApiInfer(outs[k]).err # ""
    THEN CHOOSE k \in 1..Len(outs) :
            /\ ApiInfer(outs[k]).err # ""
            /\ \A j \in 1..(k - 1) : ApiInfer(outs[j]).err = ""
    ELSE 0

\* POST /inference/batch: all images are decoded, the overrides are set,
\* infer_batch runs infer on each frame in order, each result is filtered.
BatchInferenceEndpoint(images, threshold, classes, outs) ==
    /\ requests < MaxRequests
    /\ requests' = requests + 1
    /\ Len(outs) = Len(images)
    /\ IF \E k \in 1..Len(images) : images[k] = "bad"
       THEN /\ resp' = Response(StatusOf("ValueError"),
                                "Failed to decode image", <<>>)
            /\ UNCHANGED <<detVars, statVars>>
       ELSE LET f == ApplyOverrides(filter, threshold, classes)
                k == FirstFailure(outs)
            IN  /\ lock = "free"
                /\ filter' = f
                /\ UNCHANGED <<detIn, detOut, detErr>>
                /\ IF k # 0
                   THEN /\ resp' = Response(StatusOf(ApiInfer(outs[k]).err),
                                            ApiInfer(outs[k]).detail, <<>>)
                        /\ CountInfers(k - 1)
                   ELSE /\ resp' = Response(200, "",
                               [j \in 1..Len(outs) |->
                                   FilteredBoxes(outs[j].boxes, f)])
                        /\ CountInfers(Len(outs))
    /\ UNCHANGED <<fsVars, postVars, nmsVars, loaderVars, hasCallback,
                   monitoring, monitorInterval, pc, args, minfo, ret, last,
                   snapC, snapM, used>>

(***************************************************************************)
(* FramePreprocessor.preprocess and PostProcessor.process_output.          *)
(***************************************************************************)
\* scale = min(target_width / original_width, target_height / original_height)
LetterboxScale(shape, target) ==
    FMin(Frac(target[1], shape[2]), Frac(target[2], shape[1]))

\* (new_width, new_height) = (int(original_width * scale), int(... * scale))
NewSize(shape, sc) ==
    <<Floor(FMul(Whole(shape[2]), sc)), Floor(FMul(Whole(shape[1]), sc))>>

\* (pad_x, pad_y): the resized frame is centred in the target.
LetterboxPadding(shape, target, sc) ==
    <<(target[1] - NewSize(shape, sc)[1]) \div 2,
      (target[2] - NewSize(shape, sc)[2]) \div 2>>

\* preprocess(frame): records scale and padding.
Preprocess ==
    /\ poPc = "preprocess"
    /\ scale' = LetterboxScale(frameShape, targetSize)
    /\ padding' = LetterboxPadding(frameShape, targetSize,
                                   LetterboxScale(frameShape, targetSize))
    /\ poPc' = "infer"
    /\ UNCHANGED <<targetSize, frameShape, confThreshold, rows, placed,
                   decoded, poOut, fsVars, apiVars, detVars, nmsVars, loaderVars,
                   hasCallback, monitoring, monitorInterval, pc, args, minfo,
                   ret, last, inferVars>>

\* Where the pixel p of the frame lies in the padded input, as a fraction of
\* the input side: the resized frame is pasted at the padding offset.
NormalizedAt(p, sc, pad, side) ==
    FDiv(FAdd(FMul(Whole(p), sc), Whole(pad)), Whole(side))

\* The row of a detector that finds exactly the pixel box b of the frame.
PlacedRow(b, sc, pad, target) ==
    LET nx1 == NormalizedAt(b[1], sc, pad[1], target[1])
        ny1 == NormalizedAt(b[2], sc, pad[2], target[2])
        nx2 == NormalizedAt(b[3], sc, pad[1], target[1])
        ny2 == NormalizedAt(b[4], sc, pad[2], target[2])
    IN  Row(FDiv(FAdd(nx1, nx2), Whole(2)), FDiv(FAdd(ny1, ny2), Whole(2)),
            FSub(nx2, nx1), FSub(ny2, ny1), <<9, 0, 0>>)

\* compiled_model([preprocessed]): the output tensor holds any rows, or the
\* row of one object at a known place of the frame.
RunModel ==
    /\ poPc = "infer"
    /\ \/ \E rs \in RowLists(MaxRows) : rows' = rs /\ placed' = <<>>
       \/ \E b \in PixelBoxes(frameShape) :
            /\ rows' = <<PlacedRow(b, scale, padding, targetSize)>>
            /\ placed' = <<b>>
    /\ poPc' = "post"
    /\ UNCHANGED <<targetSize, frameShape, confThreshold, scale, padding,
                   decoded, poOut, fsVars, apiVars, detVars, nmsVars, loaderVars,
                   hasCallback, monitoring, monitorInterval, pc, args, minfo,
                   ret, last, inferVars>>

\* int(np.argmax(class_scores)): the first index of the highest score.
Argmax(scores) ==
    (CHOOSE i \in 1..Len(scores) :
        /\ \A j \in 1..Len(scores) : scores[j] <= scores[i]
        /\ \A j \in 1..(i - 1) : scores[j] < scores[i]) - 1

\* class_names[class_id] if class_id < len(class_names) else "class_<id>"
ClassNameOf(class_id) ==
    IF class_id < Len(CocoClassNames) THEN CocoClassNames[class_id + 1]
    ELSE "class_n"

\* if confidence < self.confidence_threshold: continue
BelowThreshold(confidence, threshold) == confidence < threshold

\* (norm * 640 - pad) / scale
Unpad(norm, pad, sc) ==
    FDiv(FSub(FMul(norm, Whole(NormBase)), Whole(pad)), sc)

\* max(0, min(v, limit))
Clip(v, limit) == FMax(Whole(0), FMin(v, Whole(limit)))

\* if x2 <= x1 or y2 <= y1: continue
DegenerateStrictly(x1, y1, x2, y2) == FLess(x2, x1) \/ FLess(y2, y1)
Degenerate(x1, y1, x2, y2) == FLeq(x2, x1) \/ FLeq(y2, y1)

\* The body of the loop over the detections: the boxes one row appends.
DecodeRow(row, threshold, sc, pad, shape) ==
    LET class_id == Argmax(row.class_scores)
        confidence == row.class_scores[class_id + 1]
        half_w == FDiv(row.width, Whole(2))
        half_h == FDiv(row.height, Whole(2))
        x1 == Clip(Unpad(FSub(row.x_center, half_w), pad[1], sc), shape[2])
        y1 == Clip(Unpad(FSub(row.y_center, half_h), pad[2], sc), shape[1])
        x2 == Clip(Unpad(FAdd(row.x_center, half_w), pad[1], sc), shape[2])
        y2 == Clip(Unpad(FAdd(row.y_center, half_h), pad[2], sc), shape[1])
    IN  IF BelowThreshold(confidence, threshold) THEN <<>>
        ELSE IF Degenerate(x1, y1, x2, y2) THEN <<>>
        ELSE <<BoundingBox(x1, y1, x2, y2, confidence, class_id,
                           ClassNameOf(class_id))>>

RECURSIVE DecodeRows(_, _, _, _, _)
DecodeRows(rs, threshold, sc, pad, shape) ==
    IF rs = <<>> THEN <<>>
    ELSE DecodeRow(Head(rs), threshold, sc, pad, shape)
         \o DecodeRows(Tail(rs), threshold, sc, pad, shape)

\* process_output up to the call of _apply_nms.
ProcessOutput ==
    /\ poPc = "post"
    /\ decoded' = DecodeRows(rows, confThreshold, scale, padding, frameShape)
    /\ poPc' = "nms"
    /\ UNCHANGED <<targetSize, frameShape, confThreshold, scale, padding,
                   rows, placed, poOut, fsVars, apiVars, detVars, nmsVars, loaderVars,
                   hasCallback, monitoring, monitorInterval, pc, args, minfo,
                   ret, last, inferVars>>

\* The index lists cv2.dnn.NMSBoxes can return for n boxes: distinct valid
\* indices in any order.
IndexLists(n) ==
    {ix \in UNION {[1..k -> 1..n] : k \in 0..n} :
        \A i, j \in 1..Len(ix) : i # j => ix[i] # ix[j]}

\* _apply_nms with OpenCV, which process_output requires:
\* [boxes[i] for i in indices], and [] for no boxes.
ApplyNms ==
    /\ poPc = "nms"
    /\ \E ix \in IndexLists(Len(decoded)) :
          poOut' = [k \in 1..Len(ix) |-> decoded[ix[k]]]
    /\ poPc' = "done"
    /\ UNCHANGED <<targetSize, frameShape, confThreshold, scale, padding,
                   rows, placed, decoded, fsVars, apiVars, detVars, nmsVars,
                   loaderVars, hasCallback, monitoring, monitorInterval, pc,
                   args, minfo, ret, last, inferVars>>

(***************************************************************************)
(* The specifications.  Every one runs the environment and the             *)
(* administrative caller; InferSpec adds the inference caller, WatchSpec   *)
(* the hot-reload monitoring and its watcher thread.                       *)
(***************************************************************************)
EnvNext ==
    \/ \E p \in XmlPaths, c \in XmlContents : WriteFile(p, c)
    \/ \E p \in BinPaths, c \in BinContents : WriteFile(p, c)

AdminNext ==
    \/ \E t \in Admins, f \in Formats, v \in Versions : LoadModel(t, f, v)
    \/ \E t \in Admins : ReloadModel(t)
    \/ \E t \in Admins : Resolve(t)
    \/ \E t \in Admins : FinishLoad(t)

InferNext ==
    \/ \E i \in Inferers : InferCall(i)
    \/ \E i \in Inferers : InferGetInfo(i)
    \/ \E i \in Inferers : InferRunBegin(i)
    \/ \E i \in Inferers : InferRunEnd(i)
    \/ \E i \in Inferers : InferPost(i)
    \/ \E i \in Inferers : InferCount(i)
    \* The elapsed time only feeds the statistics, which the specifications
    \* of the statistics callers vary; one value is enough here.
    \/ \E i \in Inferers, t \in {1} : InferFinish(i, t)

MonitorNext ==
    \/ \E t \in Admins, iv \in Intervals : StartMonitoring(t, iv)
    \/ \E t \in Admins : StopMonitoring(t)
    \/ \E t \in Admins : JoinReturn(t)
    \/ \E w \in Watchers : WatcherInit(w)
    \/ \E w \in Watchers : WatcherLoop(w)
    \/ \E w \in Watchers : WatcherWake(w)
    \/ \E w \in Watchers : WatcherReload(w)
    \/ \E w \in Watchers : Resolve(w)
    \/ \E w \in Watchers : FinishLoad(w)
    \/ \E w \in Watchers : WatcherUpdate(w)

Next == EnvNext \/ AdminNext

Spec == Init /\ [][Next]_vars

InferSpec == Init /\ [][Next \/ InferNext]_vars

WatchSpec == Init /\ [][Next \/ MonitorNext]_vars

\* The watcher thread is scheduled, time.sleep returns and the loader lock
\* is eventually granted to it; a load that holds the lock runs on.
WatcherNext(w) ==
    \/ WatcherInit(w) \/ WatcherLoop(w) \/ WatcherWake(w) \/ WatcherReload(w)
    \/ Resolve(w) \/ FinishLoad(w) \/ WatcherUpdate(w)

FairWatchSpec ==
    /\ WatchSpec
    /\ \A w \in Watchers : SF_vars(WatcherNext(w))
    /\ \A t \in Admins : WF_vars(FinishLoad(t))

\* One versioned model: the administrative caller loads it and the
\* environment rewrites its primary file.
OneModelNext ==
    \/ \E c \in XmlContents : WriteFile(VerXml, c)
    \/ \E t \in Admins : LoadModel(t, "openvino", "v1")
    \/ \E t \in Admins : FinishLoad(t)

\* Inference against this model.
CallSpec == Init /\ [][OneModelNext \/ InferNext]_vars

\* Monitoring of this model: the administrative caller also starts and
\* stops monitoring.  The join of the stop call times out.
StopSpec == Init /\ [][OneModelNext \/ MonitorNext]_vars

\* The statistics of the engine: one model is loaded, two threads call
\* infer concurrently.
StatsNext ==
    \/ \E t \in Admins : LoadModel(t, "openvino", "v1")
    \/ \E t \in Admins : FinishLoad(t)
    \/ \E i \in Callers : InferCall(i)
    \/ \E i \in Callers : InferGetInfo(i)
    \/ \E i \in Callers : InferRunBegin(i)
    \/ \E i \in Callers : InferRunEnd(i)
    \/ \E i \in Callers : InferPost(i)
    \/ \E i \in Callers : InferCount(i)
    \/ \E i \in Callers, t \in InferTimes : InferFinish(i, t)

StatsSpec == Init /\ [][StatsNext]_vars

\* The same, with callers that also reset the statistics.
ResetNext ==
    \/ \E c \in Callers : ResetCount(c)
    \/ \E c \in Callers : ResetTime(c)

ResetSpec == Init /\ [][StatsNext \/ ResetNext]_vars

\* A DetectionLogic and the calls made on it.
DetNext ==
    \/ \E th \in ThresholdArgs : SetConfidenceThreshold(th)
    \/ \E cs \in ClassArgs : SetEnabledClasses(cs)
    \/ \E bs \in BoxLists(MaxDetBoxes) : FilterDetections(bs)

DetSpec == DetInit /\ [][DetNext]_vars

\* One call of _simple_nms.
NmsNext == NmsSort \/ NmsTake \/ NmsReturn

NmsSpec == NmsInit /\ [][NmsNext]_vars

\* One frame through preprocess, the model and process_output.
PostNext == Preprocess \/ RunModel \/ ProcessOutput \/ ApplyNms

PostSpec == PostInit /\ [][PostNext]_vars

\* Requests to the inference API while one model is loaded and replaced.
ApiNext ==
    \/ \E image \in Images, th \in ThresholdOverrides, cl \in ClassOverrides,
          out \in ApiOutcomes :
            InferenceEndpoint(image, th, cl, out)
    \/ \E image \in Images, out \in ApiOutcomes :
            InferenceFileEndpoint(image, out)
    \/ \E images \in BatchImages, th \in ThresholdOverrides,
          cl \in ClassOverrides :
            \E outs \in BatchOutcomes(Len(images)) :
                BatchInferenceEndpoint(images, th, cl, outs)

ApiSpec == ApiInit /\ [][OneModelNext \/ ApiNext]_vars

\* Two administrative callers start and stop monitoring concurrently; the
\* files of the loaded model do not change.
RaceNext ==
    \/ \E t \in Operators : LoadModel(t, "openvino", "v1")
    \/ \E t \in Operators : FinishLoad(t)
    \/ \E t \in Operators : StartCheck(t)
    \/ \E t \in Operators, iv \in Intervals, w \in AllWatchers :
            StartSpawn(t, iv, w)
    \/ \E t \in Operators : StopMonitoring(t)
    \/ \E t \in Operators : JoinReturn(t)
    \/ \E w \in AllWatchers : WatcherInit(w)
    \/ \E w \in AllWatchers : WatcherLoop(w)
    \/ \E w \in AllWatchers : WatcherWake(w)

RaceSpec == Init /\ [][RaceNext]_vars

\* Two administrative callers load the models of the two formats and
\* reload the current model concurrently.
ReloadInit == EngineTwoFormats /\ DetIdle /\ NmsIdle /\ PostIdle /\ ApiIdle

ReloadNext ==
    \/ \E t \in Operators : LoadModel(t, "openvino", "v1")
    \/ \E t \in Operators : LoadModel(t, "onnx", "v2")
    \/ \E t \in Operators : FinishLoad(t)
    \/ \E t \in Operators : ReloadCheck(t)
    \/ \E t \in Operators : ReloadReadName(t)
    \/ \E t \in Operators : ReloadReadFormat(t)
    \/ \E t \in Operators : ReloadReadVersion(t)
    \/ \E t \in Operators : Resolve(t)

ReloadSpec == ReloadInit /\ [][ReloadNext]_vars

FairStopSpec ==
    /\ StopSpec
    /\ \A w \in Watchers : SF_vars(WatcherNext(w))
    /\ \A t \in Admins : WF_vars(FinishLoad(t))
    /\ \A t \in Admins : WF_vars(JoinReturn(t))


(***************************************************************************)
(* Properties of load_model and reload_model.                              *)
(***************************************************************************)
\* A load_model call of thread t returns or raises in this step, having
\* reached the compile stage.
LoadEnds(t) == pc[t] = "compile" /\ pc'[t] # "compile"

\* The load that ends in this step published a new current model.
Published == current'.gen # current.gen

\* C2: whenever no load holds the loader lock, the compiled model and the
\* current ModelInfo come from the same successful load: both absent, or
\* both present with the same identity.
C2_PairFromSameLoad == lock = "free" => compiled.gen = current.gen

\* C3: a load_model call that fails leaves the previously Active model
\* untouched: neither the current ModelInfo nor the compiled model that
\* infer is served changes.
C3_FailedLoadKeepsActive ==
    [][\A t \in LoaderThreads :
         (LoadEnds(t) /\ ~Published /\ current # NoModel)
            => (current' = current /\ compiled' = compiled)]_vars

\* C5: the reload callback is invoked exactly once by every successful load
\* that replaces a current model, with the ModelInfo that has just become
\* current, and by nothing else: not by the first successful load, not by
\* a failed load.
C5_CallbackOncePerReload ==
    [][IF hasCallback /\ current # NoModel /\ Published
       THEN /\ Len(cbLog') = Len(cbLog) + 1
            /\ SubSeq(cbLog', 1, Len(cbLog)) = cbLog
            /\ cbLog'[Len(cbLog')].gen = current'.gen
       ELSE cbLog' = cbLog]_vars

C5_Witness ==
    /\ hasCallback
    /\ current.gen = 2
    /\ Len(cbLog) = 1
    /\ cbLog[1].gen = 2

\* C6: when the reload callback raises, load_model still returns the new
\* ModelInfo to its caller and the new model is the current one.
C6_CallbackErrorIsolated ==
    [][\A t \in Admins :
         (LoadEnds(t) /\ Len(cbLog') > Len(cbLog) /\ cbLog'[Len(cbLog')].raised)
            => /\ ret'[t] = Result("ok", cbLog'[Len(cbLog')].gen)
               /\ current'.gen = ret'[t].gen
               /\ compiled'.gen = ret'[t].gen
               /\ lock' = "free"]_vars

C6_Witness ==
    /\ Len(cbLog) = 1
    /\ cbLog[1].raised
    /\ \E t \in Admins : ret[t] = Result("ok", cbLog[1].gen) /\ pc[t] = "idle"
    /\ current.gen = cbLog[1].gen

\* C7: reload_model before any successful load fails with "no model
\* loaded" and changes nothing of the loader.
C7_ReloadWithoutModel ==
    [][\A t \in Admins :
         (ReloadModel(t) /\ current = NoModel)
            => /\ ret'[t] = Result("NoModelLoaded", 0)
               /\ pc'[t] = "idle"
               /\ UNCHANGED <<current, compiled, cbLog, lock, nextGen, args>>]_vars

C7_Witness ==
    /\ current = NoModel
    /\ compiled = NoCompiled
    /\ cbLog = <<>>
    /\ \E t \in Admins : ret[t] = Result("NoModelLoaded", 0) /\ pc[t] = "idle"

\* C8: a reload_model call for a current model whose primary file is still
\* on disk finds that same file again.
C8_ReloadFindsSameFile ==
    [][\A t \in Admins :
         (Resolve(t) /\ current # NoModel /\ Exists(current.xml_path)
            /\ args[t] = [name |-> current.name, format |-> current.format,
                          version |-> current.version])
            => (pc'[t] = "compile" /\ minfo'[t].xml_path = current.xml_path)]_vars


(***************************************************************************)
(* Properties of infer against concurrent loads.                           *)
(***************************************************************************)
\* C1: the forward pass of an infer call runs, from its start to its end,
\* on the one compiled model the call obtained at its start, and that
\* model is the product of a completed compile_model call.
C1_InferOneModel ==
    \A i \in Inferers :
       pc[i] \in {"running", "post"} =>
          /\ snapC[i] # NoCompiled
          /\ snapC[i].gen \in 1..(nextGen - 1)
          /\ ~ReadModelFails(snapC[i].src)
          /\ \A k \in 1..Len(used[i]) : used[i][k] = snapC[i]

\* A load published another model while the call was in flight.
C1_Witness ==
    \E i \in Inferers :
       /\ pc[i] = "post"
       /\ used[i] = <<snapC[i], snapC[i]>>
       /\ compiled.gen # snapC[i].gen
       /\ current.gen = compiled.gen

\* C4: while a load is in its compile step, a concurrent reader
\* (get_compiled_model / get_current_model, as called by infer) can proceed.
C4_ReadersNotBlocked ==
    \A t \in Admins, i \in Inferers :
       pc[t] = "compile" =>
          /\ (pc[i] = "idle" /\ inferCount < MaxInfers) => ENABLED InferCall(i)
          /\ pc[i] = "getinfo" => ENABLED InferGetInfo(i)

(***************************************************************************)
(* Properties of the hot-reload watcher.                                   *)
(***************************************************************************)
\* C9: on a wake-up the watcher calls reload_model exactly when the
\* checksum of the active model's files, as they are now, differs from
\* last_checksum; after a successful reload last_checksum is the checksum
\* of the model that is now current.
C9_ReloadIffChecksumDiffers ==
    [][\A w \in Watchers :
         /\ (pc[w] = "sleep" /\ pc'[w] # "sleep" /\ current # NoModel
               /\ ChecksumReadable(current))
              => (pc'[w] = "reload" <=> CalculateChecksum(current) # last[w])
         /\ (pc'[w] = "reload" /\ pc[w] # "reload") => pc[w] = "sleep"
         /\ (pc[w] = "update" /\ pc'[w] # "update")
              => (current # NoModel /\ last'[w] = current.checksum)
         /\ last'[w] # last[w] => pc[w] \in {"init", "update"}]_vars

\* The watcher's reload of changed files has just succeeded.
C9_Witness ==
    \E w \in Watchers :
       /\ pc[w] = "update"
       /\ current.gen = 2
       /\ last[w] # current.checksum
       /\ CalculateChecksum(current) = current.checksum

\* The files of the active model are present and the engine can load them.
Loadable(info) ==
    /\ Exists(info.xml_path)
    /\ ~ReadModelFails(Content(info.xml_path))
    /\ ~ShapeQueryFails(Content(info.xml_path))
    /\ info.bin_path # NoPath => Exists(info.bin_path)

InSync == current.checksum = CalculateChecksum(current)

\* C10: while monitoring stays on, once the files of the active model are
\* loadable and no longer change, the model of these files eventually is
\* the current one (as long as the model's load budget lasts).
C10_WatcherRecovers ==
    [](( /\ monitoring
         /\ current # NoModel
         /\ fsOps = MaxFileOps
         /\ Loadable(current) )
       => <>(InSync \/ ~monitoring \/ nextGen > MaxLoads))

\* The same, for models loaded from a versioned file.
C10_VersionedRecovers ==
    [](( /\ monitoring
         /\ current # NoModel
         /\ current.version # "latest"
         /\ fsOps = MaxFileOps
         /\ Loadable(current) )
       => <>(InSync \/ ~monitoring \/ nextGen > MaxLoads))

(***************************************************************************)
(* Properties of start_hot_reload_monitoring and                           *)
(* stop_hot_reload_monitoring.                                             *)
(***************************************************************************)
\* A watcher thread comes into being in this step.
Spawned(w) == pc[w] # "init" /\ pc'[w] = "init"

\* C11: a watcher thread is spawned only by a start call made while
\* monitoring is off and a model is loaded; a start call made while
\* monitoring is on, or before any model is loaded, spawns no thread and
\* leaves the monitoring flag, the interval and the existing watcher as
\* they were.
C11_StartOnlyWhenStoppedAndLoaded ==
    [][ /\ \A w \in Watchers :
             Spawned(w) => ~monitoring /\ current # NoModel /\ monitoring'
        /\ \A t \in Admins, iv \in Intervals :
             (StartMonitoring(t, iv) /\ (monitoring \/ current = NoModel))
             => /\ UNCHANGED <<monitoring, monitorInterval, last>>
                /\ \A w \in Watchers : pc'[w] = pc[w] ]_vars

\* Monitoring runs with a non-default interval and the caller is free to
\* call start again, with any interval.
C11_Witness ==
    /\ monitoring
    /\ monitorInterval # DefaultInterval
    /\ \E w \in Watchers : pc[w] = "sleep"
    /\ \A t \in Admins : pc[t] = "idle"

\* The watcher thread w is alive.
Alive(w) == pc[w] \notin {"none", "done"}

\* The reload the watcher is in cannot start within the model's load budget.
OutOfBudget(w) == pc[w] = "resolve" /\ nextGen > MaxLoads

\* C12: once the monitoring flag is cleared, a live watcher thread ends on
\* its own unless monitoring is started again (or the model's load budget
\* stops its reload); the stop call returns from its bounded join; and
\* neither the stop call nor the join ever moves the watcher thread.
C12_WatcherStopsCooperatively ==
    /\ \A w \in Watchers :
         []((~monitoring /\ Alive(w))
            => <>(pc[w] = "done" \/ monitoring \/ OutOfBudget(w)))
    /\ \A t \in Admins : [](pc[t] = "join" => <>(pc[t] = "idle"))
    /\ [][\A t \in Admins :
            (StopMonitoring(t) \/ JoinReturn(t))
            => \A w \in Watchers : pc'[w] = pc[w]]_vars

\* The stop call has returned and the watcher thread has ended.
C12_Witness ==
    /\ ~monitoring
    /\ \E w \in Watchers : pc[w] = "done"
    /\ \A t \in Admins : pc[t] = "idle"
    /\ current # NoModel

(***************************************************************************)
(* Properties of the inference engine's statistics and of its "model not   *)
(* loaded" failure.                                                        *)
(***************************************************************************)
\* No infer call is in flight.
NoInferInFlight == \A c \in Callers : pc[c] \in {"idle", "reset"}

\* C13: once the infer calls made since the statistics were last reset
\* have all completed, in whatever interleaving, get_statistics reports as
\* total_inferences their number and as total_time_ms the sum of their
\* times.
C13_StatsCountEveryCall ==
    (\A c \in Callers : pc[c] = "idle")
    => GetStatistics = [total_inferences |-> okInfers,
                        total_time_ms |-> okTime]

\* C14: the two counters are reset together: whenever no infer call is in
\* flight, also during a reset_statistics call, get_statistics shows
\* either both counters zero or neither.
C14_ResetZeroesBoth ==
    NoInferInFlight
    => (GetStatistics.total_inferences = 0 <=> GetStatistics.total_time_ms = 0)

\* The infer call of thread i raises "model not loaded" in this step and
\* has touched neither the engine nor the statistics.
FailsNotLoaded(i) ==
    /\ ret'[i].status = "ModelNotLoaded"
    /\ pc'[i] = "idle"
    /\ UNCHANGED <<used, statVars>>

\* C15: an infer call that finds no compiled model, or no current
\* ModelInfo, raises "model not loaded" at once and leaves the statistics
\* unchanged; preprocessing and the engine call are reached only with
\* both.
C15_FailFastNotLoaded ==
    [][\A i \in Inferers :
         /\ (InferCall(i) /\ compiled = NoCompiled) => FailsNotLoaded(i)
         /\ (InferGetInfo(i) /\ current = NoModel) => FailsNotLoaded(i)
         /\ (pc[i] # "run" /\ pc'[i] = "run")
            => snapC'[i] # NoCompiled /\ snapM'[i] # NoModel]_vars

\* An infer call has failed on a loader that holds no model.
C15_Witness ==
    \E i \in Inferers :
       /\ ret[i].status = "ModelNotLoaded"
       /\ pc[i] = "idle"
       /\ compiled = NoCompiled
       /\ current = NoModel
       /\ GetStatistics.total_inferences = 0

(***************************************************************************)
(* Properties of DetectionLogic.                                           *)
(***************************************************************************)
\* C16: set_confidence_threshold with a value outside [0, 1] raises a
\* validation error and leaves min_confidence, enabled_classes, min_area
\* and max_area as they were; with a value inside [0, 1] it makes the
\* value the new min_confidence and changes nothing else.
C16_ThresholdSetOrRejected ==
    [][\A th \in ThresholdArgs :
         SetConfidenceThreshold(th)
         => IF 0 <= th /\ th <= Unit
            THEN /\ filter' = [filter EXCEPT !.min_confidence = th]
                 /\ detErr' = "ok"
            ELSE /\ filter' = filter
                 /\ detErr' = "ValueError"]_vars

\* An invalid threshold has been rejected on a filter whose threshold had
\* been set and which restricts classes and areas.
C16_Witness ==
    /\ detErr = "ValueError"
    /\ filter.min_confidence = 0
    /\ filter.enabled_classes = <<{"car", "person"}>>
    /\ filter.min_area = 4

\* C17: in every state of a DetectionLogic, whatever DetectionFilter it
\* was constructed with and whatever calls followed, filter.min_confidence
\* lies within [0, 1].
C17_MinConfidenceInRange ==
    0 <= filter.min_confidence /\ filter.min_confidence <= Unit

\* The three criteria of the filter, as the contract states them.
MeetsCriteria(box) ==
    /\ box.confidence >= filter.min_confidence
    /\ filter.enabled_classes = <<>>
       \/ box.class_name \in filter.enabled_classes[1]
    /\ filter.min_area <= (box.x2 - box.x1) * (box.y2 - box.y1)
    /\ (box.x2 - box.x1) * (box.y2 - box.y1) <= filter.max_area

\* C18: filter_detections returns, in their original order, exactly the
\* boxes that meet all three criteria, and leaves the input result, its
\* box list (detIn after the call) and the filter as they were.
C18_FilterKeepsExactlyPassing ==
    [][FilterDetections(detIn')
       => /\ detOut' = SelectSeq(detIn', MeetsCriteria)
          /\ filter' = filter]_vars

\* A filter pass has kept a box whose confidence equals min_confidence and
\* removed the other box of its input.
C18_Witness ==
    /\ detErr = "ok"
    /\ Len(detIn) = 2
    /\ Len(detOut) = 1
    /\ detOut[1].confidence = filter.min_confidence
    /\ filter.enabled_classes # <<>>

(***************************************************************************)
(* Properties of the non-maximum suppression.                              *)
(***************************************************************************)
\* iou > threshold: the IoU exceeds the threshold.
IouExceeds(iou, threshold) == iou[1] * Unit > threshold * iou[2]

\* The box at position k of the sorted list s survives: its IoU with
\* every surviving box before it is at most the threshold.
RECURSIVE Survives(_, _, _)
Survives(s, k, threshold) ==
    \A j \in 1..(k - 1) :
       Survives(s, j, threshold)
       => ~IouExceeds(CalculateIou(s[j], s[k]), threshold)

RECURSIVE SurvivorsFrom(_, _, _)
SurvivorsFrom(s, k, threshold) ==
    IF k > Len(s) THEN <<>>
    ELSE (IF Survives(s, k, threshold) THEN <<s[k]>> ELSE <<>>)
         \o SurvivorsFrom(s, k + 1, threshold)

\* C19: _simple_nms takes the boxes in descending order of confidence and
\* returns exactly those whose IoU with every earlier survivor is at most
\* nms_threshold: a box is dropped if and only if its IoU with an earlier
\* survivor is strictly greater than the threshold, whatever the classes.
C19_DroppedIffOverlapsSurvivor ==
    nmsPc = "done"
    => kept = SurvivorsFrom(SortedByConfidence(boxes), 1, nmsThreshold)

\* The number of boxes _simple_nms returns does not decrease when the
\* threshold grows.
Monotone(bs) ==
    \A t1 \in NmsThresholds, t2 \in NmsThresholds :
       t1 < t2 => Len(SimpleNms(bs, t1)) <= Len(SimpleNms(bs, t2))

\* C20 as stated: for every list of boxes and all thresholds
\* t_low < t_high, the suppression with t_high returns no fewer boxes
\* than with t_low.
C20_MonotoneInThreshold == Monotone(boxes)

\* C20, amended: the same, for every list of at most three boxes.
C20_MonotoneUpToThreeBoxes == Len(boxes) <= 3 => Monotone(boxes)

\* A call on three boxes has returned, and a lower threshold returns
\* fewer boxes for them.
C20_Witness ==
    /\ nmsPc = "done"
    /\ Len(boxes) = 3
    /\ kept = SimpleNms(boxes, nmsThreshold)
    /\ \E t1 \in NmsThresholds :
         t1 < nmsThreshold /\ Len(SimpleNms(boxes, t1)) < Len(kept)

\* C21: NMS is idempotent: applying _simple_nms to the list it returned, with
\* the same threshold, returns that list again, and no two returned boxes
\* suppress one another.
C21_NmsIdempotent ==
    nmsPc = "done" =>
        /\ SimpleNms(kept, nmsThreshold) = kept
        /\ \A i, j \in 1..Len(kept) :
               i # j => Stays(kept[i], kept[j], nmsThreshold)

\* NMS has returned several boxes after suppressing at least one.
C21_Witness ==
    /\ nmsPc = "done"
    /\ Len(kept) >= 2
    /\ Len(kept) < Len(boxes)

\* C22: every box process_output returns has x1 < x2 and y1 < y2, lies within
\* [0, original width] x [0, original height], and has a confidence that is
\* not below confidence_threshold.
C22_ReturnedBoxesValid ==
    poPc = "done" =>
        \A k \in 1..Len(poOut) :
            LET b == poOut[k]
            IN  /\ FLess(b.x1, b.x2) /\ FLess(b.y1, b.y2)
                /\ FLeq(Whole(0), b.x1) /\ FLeq(b.x2, Whole(frameShape[2]))
                /\ FLeq(Whole(0), b.y1) /\ FLeq(b.y2, Whole(frameShape[1]))
                /\ b.confidence >= confThreshold

\* process_output returned a box although the output held a row below the
\* threshold or a row that is degenerate after clipping.
C22_Witness ==
    /\ poPc = "done"
    /\ placed = <<>>
    /\ poOut # <<>>
    /\ Len(decoded) < Len(rows)

\* C23: letterbox invertibility: for every frame size and every target_size
\* of the engine, the side by which process_output multiplies normalized
\* coordinates is the preprocessor's target side, and a detection placed at
\* the normalized input coordinates of a pixel box of the frame is returned
\* as that pixel box.
C23_LetterboxInverts ==
    (poPc = "done" /\ placed # <<>>) =>
        /\ NormBase = targetSize[1] /\ NormBase = targetSize[2]
        /\ \A k \in 1..Len(poOut) :
              /\ poOut[k].x1 = Whole(placed[1][1])
              /\ poOut[k].y1 = Whole(placed[1][2])
              /\ poOut[k].x2 = Whole(placed[1][3])
              /\ poOut[k].y2 = Whole(placed[1][4])

\* The primary file load_model(ModelName, "openvino", version) resolves to.
PrimaryFile(version) ==
    IF version # "" THEN <<ModelName, version, "xml">>
    ELSE FindLatestVersion(ModelName, "xml").file

\* C24: load_model for the openvino format, with or without a version, fails
\* with a "not found" error when the primary .xml file exists and its
\* companion .bin file is missing, and leaves the current model unchanged.
C24_MissingBinNotFound ==
    [][\A t \in Admins, v \in Versions :
         (/\ LoadModel(t, "openvino", v)
          /\ PrimaryFile(v) # NoPath
          /\ Exists(PrimaryFile(v))
          /\ ~Exists(WithSuffixBin(PrimaryFile(v))))
         => (/\ ret'[t].status = "FileNotFoundError"
             /\ pc'[t] = "idle"
             /\ current' = current)]_vars

\* C25: a request to an /inference endpoint fails with HTTP 400 exactly when
\* its image cannot be decoded and with HTTP 500 when inference fails; a
\* request with no model loaded fails with a response other than the
\* bad-input response, and no error raised during inference gives 400.
C25_StatusByCause ==
    [][\A image \in Images, th \in ThresholdOverrides, cl \in ClassOverrides,
          out \in ApiOutcomes :
         InferenceEndpoint(image, th, cl, out) =>
            /\ (resp'.status = 400) <=> (image = "bad")
            /\ (image = "good" /\ ApiInfer(out).err # "")
                  => resp'.status = 500
            /\ (image = "good" /\ CompiledMissing(compiled))
                  => resp'.detail = "Model not loaded"]_vars

\* C26: filtering is stateless by request: the overrides of a request to
\* /inference or /inference/batch filter the results of that request, and
\* the request leaves the configuration of the DetectionLogic as it was, so
\* that a later request without overrides is filtered with the
\* configuration in force before.
C26_OverridesPerRequest ==
    [][/\ requests' # requests => filter' = filter
       /\ \A th \in ThresholdOverrides, cl \in ClassOverrides,
             out \in ApiOutcomes :
            (InferenceEndpoint("good", th, cl, out) /\ resp'.status = 200)
               => resp'.results =
                     <<FilteredBoxes(out.boxes,
                                     ApplyOverrides(filter, th, cl))>>]_vars

\* The watcher thread w runs its monitor loop.
InMonitorLoop(w) == Alive(w) /\ pc[w] # "init"

\* C27: whatever the sequence and interleaving of start and stop calls, at
\* most one watcher thread runs its monitor loop at any time.
C27_AtMostOneWatcher ==
    Cardinality({w \in AllWatchers : InMonitorLoop(w)}) <= 1

\* The stop call has returned and monitoring has not been started again.
StoppedAndReturned == ~monitoring /\ \A t \in Admins : pc[t] # "join"

\* C28: once stop has returned, and monitoring is not started again, the
\* watcher compares no checksum and calls reload_model no more, and the
\* current model is not replaced by the watcher.
C28_NoWatcherActionAfterStop ==
    [][\A w \in Watchers :
         StoppedAndReturned =>
            /\ ~(WatcherWake(w) /\ current # NoModel)
            /\ ~WatcherReload(w)
            /\ ~(FinishLoad(w) /\ current' # current)]_vars

\* C29: the watcher calls reload_model exactly when the files on disk
\* differ from what the active model was loaded from: not for files that
\* another caller has loaded already, and for every change, one made
\* before its first snapshot included.
C29_ReloadIffDiskDiffersFromActive ==
    [][\A w \in Watchers :
         (WatcherWake(w) /\ current # NoModel /\ ChecksumReadable(current))
            => (pc'[w] = "reload"
                  <=> CalculateChecksum(current) # current.checksum)]_vars

\* The (name, format, version) of a ModelInfo.
TripleOf(info) ==
    [name |-> info.name, format |-> info.format, version |-> info.version]

\* C30: the (name, format, version) that reload_model passes to load_model
\* is the triple of one single ModelInfo, also when another thread's
\* load_model replaces the current model while reload_model reads it.
C30_ReloadTripleFromOneModel ==
    \A t \in Operators :
       pc[t] = "resolve" =>
          \E f \in Formats, v \in Versions :
             /\ ResolveModel(ModelName, f, v).err = ""
             /\ args[t] = TripleOf(ResolveModel(ModelName, f, v).info)

====
